---- MODULE Spec2Model ----
(***************************************************************************)
(* Model of src/ai_wrapper.py: the Flask handler translate() and the       *)
(* helper run_assistant(), together with the remote assistant service the  *)
(* helper talks to (threads, messages, runs).                              *)
(*                                                                         *)
(* Strings are sequences of Unicode code points, so that stripping,        *)
(* substring search and the difference between U+2019 and U+0027 are       *)
(* computed and not assumed.                                               *)
(***************************************************************************)
EXTENDS Integers, Sequences, FiniteSets, TLC

\* ------------------------------------------------------------------ bounds
\* Number of requests handled concurrently.
NumRequests == 2
\* Largest number of 4-character padding chunks put before and after a
\* phrase inside a remote reply.
MaxPad == 1

Requests == 1..NumRequests

\* ----------------------------------------------------------------- strings
\* Code points for which Python's str.isspace() is true: what str.strip()
\* removes when called without arguments.
Whitespace ==
    (9..13) \cup (28..32) \cup {133, 160, 5760} \cup (8192..8202)
        \cup {8232, 8233, 8239, 8287, 12288}

RECURSIVE lstrip(_)
lstrip(s) ==
    IF s # <<>> /\ Head(s) \in Whitespace THEN lstrip(Tail(s)) ELSE s

RECURSIVE rstrip(_)
rstrip(s) ==
    IF s # <<>> /\ s[Len(s)] \in Whitespace
    THEN rstrip(SubSeq(s, 1, Len(s) - 1))
    ELSE s

\* Mutant of strip: nothing is removed.
strip_none(s) == s

\* str.strip()
strip(s) == rstrip(lstrip(s))

\* Python's `sub in s` for two strings.
Contains(sub, s) ==
    \E i \in 0..(Len(s) - Len(sub)) : SubSeq(s, i + 1, i + Len(sub)) = sub

\* str.upper() on the ASCII letters (used by a mutant only).
Upper(s) == [i \in 1..Len(s) |-> IF s[i] \in 97..122 THEN s[i] - 32 ELSE s[i]]

\* The sentence "We?re still expanding our translator" with the code point q
\* as its apostrophe.
PhraseWith(q) ==
    <<87, 101, q, 114, 101, 32, 115, 116, 105, 108, 108, 32, 101, 120, 112,
      97, 110, 100, 105, 110, 103, 32, 111, 117, 114, 32, 116, 114, 97, 110,
      115, 108, 97, 116, 111, 114>>

\* Mutant of fallback_phrase: the phrase typed with the ASCII apostrophe.
fallback_phrase_ascii == PhraseWith(39)

\* fallback_phrase = "We’re still expanding our translator"
fallback_phrase == PhraseWith(8217)

\* ------------------------------------------------------------------ inputs
\* A JSON value found under the key `code`: absent, null or a string.
Absent == [t |-> "absent", s |-> <<>>]
Null == [t |-> "null", s |-> <<>>]
Text(s) == [t |-> "str", s |-> s]

\* str(payload.get('code', ''))
str(v) ==
    IF v.t = "str" THEN v.s
    ELSE IF v.t = "null" THEN <<78, 111, 110, 101>>   \* "None"
    ELSE <<>>                                          \* the default ''

Army == <<65, 114, 109, 121>>

\* Values of `code` sent without a branch: missing, null, "", " " and
\* "\t\u00a0\n".
CodeValues == {Absent, Null, Text(<<>>), Text(<<32>>), Text(<<9, 160, 10>>)}

\* Request bodies: kind "malformed" is a body that is not JSON, "nonobject"
\* is JSON that is truthy and not an object ([1], "x", 5), "falsy" is JSON
\* that is falsy (null, [], 0, "", {}), "object" is a JSON object.
Object(c, b) == [kind |-> "object", code |-> c, branch |-> b]
Bodies ==
    {[kind |-> k, code |-> Absent, branch |-> Absent] :
        k \in {"malformed", "nonobject", "falsy"}}
    \cup {Object(c, Absent) : c \in CodeValues}
    \cup {Object(Text(<<32, 50, 53, 98, 9>>), Text(Army)),   \* " 25b\t"
          Object(Text(<<32, 32>>), Text(Army))}

\* The body of the requests that run beside request 1: {"code": "11B"}.
OtherBodies == {Object(Text(<<49, 49, 66>>), Absent)}

BodiesOf(r) == IF r = 1 THEN Bodies ELSE OtherBodies

NoBody == [kind |-> "none", code |-> Absent, branch |-> Absent]

\* ---------------------------------------------------------- remote replies
PadChunk == <<32, 45, 45, 32>>                          \* " -- "
RECURSIVE Pad(_)
Pad(n) == IF n = 0 THEN <<>> ELSE PadChunk \o Pad(n - 1)

\* " 25B - Information Technology Specialist (Army)\n" (48 code points)
LongReply ==
    <<32, 50, 53, 66, 32, 8211, 32, 73, 110, 102, 111, 114, 109, 97, 116,
      105, 111, 110, 32, 84, 101, 99, 104, 110, 111, 108, 111, 103, 121, 32,
      83, 112, 101, 99, 105, 97, 108, 105, 115, 116, 32, 40, 65, 114, 109,
      121, 41, 10>>

\* "No match."
ShortReply == <<78, 111, 32, 109, 97, 116, 99, 104, 46>>

\* Texts the assistant may answer with: either phrase at every offset the
\* padding allows, the empty text, a long answer and a short one.
Replies ==
    {Pad(n[1]) \o PhraseWith(q) \o Pad(n[2]) :
        n \in {m \in (0..MaxPad) \X (0..MaxPad) : m[1] + m[2] <= MaxPad},
        q \in {8217, 39}}
    \cup {<<>>, LongReply, ShortReply}

OtherReplies == {LongReply}

RepliesOf(r) == IF r = 1 THEN Replies ELSE OtherReplies

\* Messages of a thread.
TextMessage(role, text) == [role |-> role, kind |-> "text", text |-> text]
ImageMessage == [role |-> "assistant", kind |-> "image_file", text |-> <<>>]

\* Exceptions a remote step may raise; str(exc) is the msg field.
NoExc == [type |-> "none", msg |-> ""]
ConnectionError ==
    [type |-> "APIConnectionError", msg |-> "Connection error."]
Exceptions == {ConnectionError, [type |-> "Exception", msg |-> ""]}
MissingKey ==
    [type |-> "OpenAIError", msg |-> "The api_key client option must be set"]
NoTextAttribute ==
    [type |-> "AttributeError", msg |-> "object has no attribute 'text'"]

DEFAULT_ASSISTANT_ID == "asst_9ldvYz8zGDJStpcVvBgEazPD"

\* ------------------------------------------------------------------- state
VARIABLES
    api_key,        \* openai.api_key, "None" when the variable is unset
    ASSISTANT_ID,   \* module-level ASSISTANT_ID
    threads,        \* remote service: thread id -> [created_by, messages]
    pc,             \* per request: position in translate / run_assistant
    body,           \* per request: the request body received
    code,           \* per request: local `code` / `mos_code`
    thread,         \* per request: local `thread`.id, 0 before creation
    messages,       \* per request: local `messages`.data (newest first)
    exc,            \* per request: the exception caught, NoExc if none
    calls,          \* per request: the remote calls it made, in order
    response        \* per request: the HTTP responses sent, in order

config == <<api_key, ASSISTANT_ID>>
vars == <<api_key, ASSISTANT_ID, threads, pc, body, code, thread, messages,
          exc, calls, response>>

Init ==
    /\ api_key \in {"sk-key", "None"}
    /\ ASSISTANT_ID \in {DEFAULT_ASSISTANT_ID, "asst_from_env"}
    /\ threads = <<>>
    /\ pc = [r \in Requests |-> "idle"]
    /\ body = [r \in Requests |-> NoBody]
    /\ code = [r \in Requests |-> <<>>]
    /\ thread = [r \in Requests |-> 0]
    /\ messages = [r \in Requests |-> <<>>]
    /\ exc = [r \in Requests |-> NoExc]
    /\ calls = [r \in Requests |-> <<>>]
    /\ response = [r \in Requests |-> <<>>]

\* --------------------------------------------------------------- responses
\* jsonify(obj): status 200 with obj as the JSON body.
jsonify(obj) == [status |-> 200, body |-> obj]

\* What Flask sends when the view raises: 400 for the BadRequest that
\* get_json(force=True) raises, 500 for any other exception.
ErrorPage(status) == [status |-> status, body |-> [html |-> TRUE]]

NotFoundResult == jsonify([notFound |-> TRUE])

\* Mutant of ErrorResult: the description is left out.
ErrorResultBare(e) == jsonify([notFound |-> TRUE])

\* jsonify({"notFound": True, "error": str(exc)})
ErrorResult(e) == jsonify([notFound |-> TRUE, error |-> e.msg])

\* Mutant of FoundResult: the reply is stripped before it is returned.
FoundResultStripped(ai_reply) == jsonify([reply |-> strip(ai_reply)])

\* jsonify({"reply": ai_reply})
FoundResult(ai_reply) == jsonify([reply |-> ai_reply])

\* The lines after the try block: the fallback phrase test.
Classify(ai_reply) ==
    IF Contains(fallback_phrase, ai_reply)
    THEN NotFoundResult
    ELSE FoundResult(ai_reply)

\* `return resp` of request r.
Return(r, resp) ==
    /\ response' = [response EXCEPT ![r] = Append(@, resp)]
    /\ pc' = [pc EXCEPT ![r] = "done"]

\* One entry of a request's log of remote calls.
Call(op, tid, role, content, assistant, result) ==
    [op |-> op, thread_id |-> tid, role |-> role, content |-> content,
     assistant_id |-> assistant, result |-> result]

Log(r, c) == calls' = [calls EXCEPT ![r] = Append(@, c)]

\* The except clause of translate: e was raised inside run_assistant.
Except(r, e) ==
    /\ exc' = [exc EXCEPT ![r] = e]
    /\ Return(r, ErrorResult(e))

\* What a remote call can raise under the configured credential.
Raisable(r) ==
    IF api_key = "None" THEN {MissingKey}
    ELSE IF r = 1 THEN Exceptions
    ELSE {ConnectionError}

\* Terminal states of a run other than completed.
RunEnds(r) == IF r = 1 THEN {"failed", "cancelled", "expired"} ELSE {"failed"}

\* ----------------------------------------------------------------- actions
\* payload = request.get_json(force=True) or {}
Payload(b) == IF b.kind = "falsy" THEN Object(Absent, Absent) ELSE b

\* translate(), from its entry to the call of run_assistant.
Receive(r) ==
    /\ pc[r] = "idle"
    /\ \E b \in BodiesOf(r) :
        /\ body' = [body EXCEPT ![r] = b]
        /\ IF b.kind = "malformed"
           THEN /\ Return(r, ErrorPage(400))
                /\ UNCHANGED code
           ELSE IF b.kind = "nonobject"
           THEN /\ Return(r, ErrorPage(500))
                /\ UNCHANGED code
           ELSE LET c == strip(str(Payload(b).code)) IN
                /\ code' = [code EXCEPT ![r] = c]
                /\ IF c = <<>>
                   THEN Return(r, NotFoundResult)
                   ELSE /\ pc' = [pc EXCEPT ![r] = "create"]
                        /\ UNCHANGED response
    /\ UNCHANGED <<config, threads, thread, messages, exc, calls>>

\* thread = openai.beta.threads.create()
ThreadsCreate(r) ==
    /\ pc[r] = "create"
    /\ \/ \E e \in Raisable(r) :
            /\ Log(r, Call("threads.create", 0, "", <<>>, "", "raised"))
            /\ Except(r, e)
            /\ UNCHANGED <<threads, thread>>
       \/ /\ api_key # "None"
          /\ threads' = Append(threads, [created_by |-> r, messages |-> <<>>])
          /\ thread' = [thread EXCEPT ![r] = Len(threads) + 1]
          /\ Log(r, Call("threads.create", 0, "", <<>>, "", "ok"))
          /\ pc' = [pc EXCEPT ![r] = "post"]
          /\ UNCHANGED <<exc, response>>
    /\ UNCHANGED <<config, body, code, messages>>

\* Mutant of UserMessage: the code is upper-cased before it is posted.
UserMessageUpper(mos_code) == TextMessage("user", Upper(mos_code))

\* role="user", content=mos_code
UserMessage(mos_code) == TextMessage("user", mos_code)

\* openai.beta.threads.messages.create(thread_id=thread.id, ...)
MessagesCreate(r) ==
    /\ pc[r] = "post"
    /\ LET m == UserMessage(code[r])
           c(res) == Call("threads.messages.create", thread[r], m.role,
                          m.text, "", res)
       IN
       \/ \E e \in Raisable(r) :
            /\ Log(r, c("raised"))
            /\ Except(r, e)
            /\ UNCHANGED threads
       \/ /\ threads' = [threads EXCEPT ![thread[r]].messages = Append(@, m)]
          /\ Log(r, c("ok"))
          /\ pc' = [pc EXCEPT ![r] = "run"]
          /\ UNCHANGED <<exc, response>>
    /\ UNCHANGED <<config, body, code, thread, messages>>

\* openai.beta.threads.runs.create_and_poll(thread_id=thread.id,
\* assistant_id=ASSISTANT_ID): the run ends completed with one assistant
\* message added, or in another terminal state with nothing added, or the
\* call raises.  The returned run is not looked at.
CreateAndPoll(r) ==
    /\ pc[r] = "run"
    /\ LET c(res) == Call("threads.runs.create_and_poll", thread[r], "",
                          <<>>, ASSISTANT_ID, res)
       IN
       \/ \E e \in Raisable(r) :
            /\ Log(r, c("raised"))
            /\ Except(r, e)
            /\ UNCHANGED threads
       \/ \E m \in {TextMessage("assistant", t) : t \in RepliesOf(r)}
                    \cup {ImageMessage} :
            /\ threads' = [threads EXCEPT ![thread[r]].messages = Append(@, m)]
            /\ Log(r, c("completed"))
            /\ pc' = [pc EXCEPT ![r] = "list"]
            /\ UNCHANGED <<exc, response>>
       \/ \E res \in RunEnds(r) :
            /\ Log(r, c(res))
            /\ pc' = [pc EXCEPT ![r] = "list"]
            /\ UNCHANGED <<threads, exc, response>>
    /\ UNCHANGED <<config, body, code, thread, messages>>

Reverse(s) == [i \in 1..Len(s) |-> s[Len(s) + 1 - i]]

\* Mutant of ListedThread: the thread created last by any request.
ListedThreadLatest(r) == Len(threads)

\* thread_id=thread.id in the call of messages.list
ListedThread(r) == thread[r]

\* messages = openai.beta.threads.messages.list(thread_id=thread.id), the
\* rest of run_assistant, and the rest of translate.  The service answers
\* with the thread's messages, newest first, or with an empty page.
MessagesList(r) ==
    /\ pc[r] = "list"
    /\ LET tid == ListedThread(r)
           c(res) == Call("threads.messages.list", tid, "", <<>>, "", res)
       IN
       \/ \E e \in Raisable(r) :
            /\ Log(r, c("raised"))
            /\ Except(r, e)
            /\ UNCHANGED messages
       \/ \E data \in {Reverse(threads[tid].messages), <<>>} :
            /\ Log(r, c("ok"))
            /\ messages' = [messages EXCEPT ![r] = data]
            /\ IF data = <<>>
               THEN /\ Return(r, Classify(<<>>))
                    /\ UNCHANGED exc
               ELSE IF data[1].kind # "text"
               THEN Except(r, NoTextAttribute)
               ELSE /\ Return(r, Classify(data[1].text))
                    /\ UNCHANGED exc
    /\ UNCHANGED <<config, threads, body, code, thread>>

Next ==
    \E r \in Requests :
        \/ Receive(r)
        \/ ThreadsCreate(r)
        \/ MessagesCreate(r)
        \/ CreateAndPoll(r)
        \/ MessagesList(r)

Spec == Init /\ [][Next]_vars

\* ------------------------------------------------------------- vocabulary
Done(r) == pc[r] = "done"

\* The response shapes of the HTTP contract.
NotFoundBody == [notFound |-> TRUE]
IsFound(p) == p.status = 200 /\ DOMAIN p.body = {"reply"}
IsNotFound(p) ==
    /\ p.status = 200
    /\ "notFound" \in DOMAIN p.body
    /\ "reply" \notin DOMAIN p.body
    /\ p.body.notFound = TRUE

\* A string with no character other than whitespace (the empty one too).
Blank(s) == \A i \in 1..Len(s) : s[i] \in Whitespace

\* The body is JSON whose `code` is missing, empty or whitespace only.
BlankCode(b) ==
    /\ b.kind \in {"object", "falsy"}
    /\ b.code.t \in {"absent", "str"}
    /\ Blank(b.code.s)

\* Some step of run_assistant raised in request r.
Raised(r) == exc[r] # NoExc

\* run_assistant returned in request r, and what it returned.
Replied(r) ==
    /\ Done(r)
    /\ ~Raised(r)
    /\ Len(calls[r]) = 4
    /\ calls[r][4].result = "ok"
AiReply(r) == IF messages[r] = <<>> THEN <<>> ELSE messages[r][1].text

RemoteSteps ==
    <<"threads.create", "threads.messages.create",
      "threads.runs.create_and_poll", "threads.messages.list">>
Ops(r) == [i \in 1..Len(calls[r]) |-> calls[r][i].op]

\* ------------------------------------------------------------------ claims
\* C1: a request whose code is missing, empty or whitespace only is answered
\* {"notFound": true} at once, and the request makes no remote call.
C1_BlankCodeNotFound ==
    \A r \in Requests :
        BlankCode(body[r]) =>
            /\ Done(r)
            /\ response[r] = <<[status |-> 200, body |-> NotFoundBody]>>
            /\ calls[r] = <<>>
            /\ thread[r] = 0

C1_Witness ==
    \E r \in Requests :
        /\ Done(r)
        /\ body[r].code = Text(<<9, 160, 10>>)
        /\ threads # <<>>

\* C2, as amended: when a step of run_assistant raises, the request ends
\* with status 200 and {"notFound": true, "error": str(exc)}; the error
\* field is present and holds the exception's description, whatever it is.
C2_RaiseGivesErrorField ==
    \A r \in Requests :
        /\ (\E i \in 1..Len(calls[r]) : calls[r][i].result = "raised")
              => Raised(r)
        /\ Raised(r) =>
              /\ Done(r)
              /\ response[r] =
                    <<[status |-> 200,
                       body |-> [notFound |-> TRUE, error |-> exc[r].msg]]>>

C2_Witness ==
    \E r \in Requests :
        /\ Done(r)
        /\ exc[r].type = "APIConnectionError"
        /\ Len(calls[r]) = 3
        /\ response[r][1].body.error = "Connection error."

\* C2, as claimed: when a step of run_assistant raises, the response is
\* NotFound with an error field whose description is not empty.
C2_ErrorNonEmpty ==
    \A r \in Requests :
        Raised(r) =>
            /\ Done(r)
            /\ Len(response[r]) = 1
            /\ IsNotFound(response[r][1])
            /\ "error" \in DOMAIN response[r][1].body
            /\ response[r][1].body.error # ""

\* C3, as amended: a reply that contains "We?re still expanding our
\* translator" written with U+2019 (right single quotation mark) as its
\* apostrophe, at any offset, is answered {"notFound": true} without reply.
C3_CurlyPhraseNotFound ==
    \A r \in Requests :
        (Replied(r) /\ Contains(PhraseWith(8217), AiReply(r))) =>
            response[r] = <<[status |-> 200, body |-> NotFoundBody]>>

C3_Witness ==
    \E r \in Requests :
        /\ Replied(r)
        /\ AiReply(r) = Pad(1) \o PhraseWith(8217)

\* C3, as claimed: a reply that contains the phrase as the specification
\* writes it, with the ASCII apostrophe U+0027, is answered NotFound.
C3_AsciiPhraseNotFound ==
    \A r \in Requests :
        (Replied(r) /\ Contains(PhraseWith(39), AiReply(r))) =>
            response[r] = <<[status |-> 200, body |-> NotFoundBody]>>

\* C4: a reply of at least 40 characters that does not contain the fallback
\* phrase is answered {"reply": text} with text exactly the reply, and
\* without a notFound field.
C4_FoundVerbatim ==
    \A r \in Requests :
        (/\ Replied(r)
         /\ Len(AiReply(r)) >= 40
         /\ ~Contains(PhraseWith(8217), AiReply(r))) =>
            response[r] = <<[status |-> 200, body |-> [reply |-> AiReply(r)]]>>

C4_Witness ==
    \E r \in Requests :
        /\ Replied(r)
        /\ messages[r] # <<>>
        /\ messages[r][1].role = "assistant"
        /\ AiReply(r) = LongReply

\* C5: an empty reply text (an empty message list included) is answered
\* {"notFound": true} and not {"reply": ""}.
C5_EmptyReplyNotFound ==
    \A r \in Requests :
        (Replied(r) /\ AiReply(r) = <<>>) =>
            response[r] = <<[status |-> 200, body |-> NotFoundBody]>>

\* C6: every response has status 200, whatever the request body and
\* whatever the remote call did.
C6_AlwaysStatus200 ==
    \A r \in Requests :
        \A i \in 1..Len(response[r]) : response[r][i].status = 200

\* C7: a request never has more than one response, and a finished request
\* has exactly one, which is Found or NotFound and not both.
C7_ExactlyOneResult ==
    \A r \in Requests :
        /\ Len(response[r]) <= 1
        /\ Done(r) =>
              /\ Len(response[r]) = 1
              /\ IsFound(response[r][1]) # IsNotFound(response[r][1])

\* C8: every request works on the thread it created itself: each of its
\* calls names that thread, the user messages of a thread are the code of
\* the request that created it, the messages a request read are those of
\* its own thread and its reply is taken from them.
C8_OwnThread ==
    \A r \in Requests :
        /\ thread[r] # 0 =>
              /\ thread[r] \in 1..Len(threads)
              /\ threads[thread[r]].created_by = r
        /\ \A i \in 1..Len(calls[r]) :
              \/ calls[r][i].op = "threads.create"
              \/ /\ thread[r] # 0
                 /\ calls[r][i].thread_id = thread[r]
        /\ \A t \in 1..Len(threads) :
              threads[t].created_by = r =>
                  /\ thread[r] = t
                  /\ \A k \in 1..Len(threads[t].messages) :
                        threads[t].messages[k].role = "user" =>
                            threads[t].messages[k].text = code[r]
        /\ messages[r] # <<>> =>
              messages[r] = Reverse(threads[thread[r]].messages)
        /\ (Done(r) /\ Len(response[r]) = 1 /\ IsFound(response[r][1])) =>
              response[r][1].body.reply = AiReply(r)

\* C8: the above in every state, and no step of any handler changes the
\* process-wide settings (API key, ASSISTANT_ID).
C8_IsolatedRequests == [][config' = config]_vars /\ []C8_OwnThread

C8_Witness ==
    /\ NumRequests >= 2
    /\ thread[1] = 2
    /\ thread[2] = 1
    /\ Replied(1)
    /\ Replied(2)
    /\ AiReply(1) = ShortReply
    /\ AiReply(2) = LongReply

\* C9: the remote calls of a request are a prefix of create, post, run,
\* list, each made once; a call that raised is the last one; the message
\* posted has role user and the stripped code as content; a request with a
\* non-blank code in which nothing raised made all four calls.
C9_LinearRemoteSteps ==
    \A r \in Requests :
        /\ Len(calls[r]) <= Len(RemoteSteps)
        /\ Ops(r) = SubSeq(RemoteSteps, 1, Len(calls[r]))
        /\ \A i \in 1..Len(calls[r]) :
              /\ calls[r][i].result = "raised" =>
                    (i = Len(calls[r]) /\ Done(r))
              /\ calls[r][i].op = "threads.messages.create" =>
                    /\ calls[r][i].role = "user"
                    /\ calls[r][i].content = strip(str(body[r].code))
        /\ (/\ Done(r)
            /\ body[r].kind = "object"
            /\ ~BlankCode(body[r])
            /\ \A i \in 1..Len(calls[r]) : calls[r][i].result # "raised") =>
              Len(calls[r]) = Len(RemoteSteps)

C9_Witness ==
    \E r \in Requests :
        /\ Done(r)
        /\ body[r].branch = Text(Army)
        /\ Len(calls[r]) = 4
        /\ calls[r][2].content = <<50, 53, 98>>
        /\ calls[r][3].result = "completed"

\* C10: the text returned as Found is never the user message the request
\* itself posted: when the page read is not empty, its newest message, the
\* one returned, is the assistant's.
C10_ReplyIsAssistants ==
    \A r \in Requests :
        (/\ Len(response[r]) = 1
         /\ IsFound(response[r][1])
         /\ messages[r] # <<>>) =>
            messages[r][1].role = "assistant"

====
